---- MODULE Spec2Model ----
(***************************************************************************)
(* Model of utils.py: expect, run_cmd, run_cmd_no_fail and                 *)
(* check_minimum_python_version.                                           *)
(*                                                                         *)
(* Text (a Python str) is a sequence of pieces: a captured or supplied     *)
(* text has one piece per character, a literal of the source is one piece. *)
(* Bytes are sequences of numbers 0..255.  An optional value (a Python     *)
(* value that may be None) is a sequence of length at most one: None is    *)
(* << >> and the value x is <<x>>.                                         *)
(***************************************************************************)
EXTENDS Integers, Sequences, FiniteSets, TLC

VARIABLES
    pc,            \* position of the caller inside the current call
    args,          \* the arguments of the current call
    stdin,         \* the parent's end of the child's stdin: "none", "open", "closed"
    child,         \* the child process of the current call
    ret,           \* what run_cmd returned: (stat, output, errput)
    result,        \* outcome of the call as its caller sees it
    printed,       \* lines the call printed on the caller's standard output
    spawned,       \* number of child processes the current call created
    cwd,           \* os.getcwd() of the caller
    version_info   \* sys.version_info[0:2] of the running interpreter

vars == <<pc, args, stdin, child, ret, result, printed, spawned, cwd, version_info>>

-----------------------------------------------------------------------------
(* Bounds of the model *)

\* the child writes at most this many bytes, over both of its streams
MaxWrites == 2

-----------------------------------------------------------------------------
(* Optional values *)

None == << >>
Some(x) == <<x>>
IsNone(o) == o = << >>
Get(o) == o[1]

-----------------------------------------------------------------------------
(* Text and bytes *)

\* the bytes a child writes: 'a', ' ' and 0xFF, which no UTF-8 text contains
ChildBytes == {97, 32, 255}

\* the characters of the model and their code points
Chars == {"a", " ", "e'"}
Ord(c) == CASE c = "a" -> 97 [] c = " " -> 32 [] c = "e'" -> 233
Chr(b) == CASE b = 97 -> "a" [] b = 32 -> " "

\* str.encode('utf-8'): one byte below U+0080, two bytes below U+0800
RECURSIVE encode(_)
encode(s) ==
    IF s = << >> THEN << >>
    ELSE LET c == Ord(Head(s))
             b == IF c < 128 THEN <<c>>
                  ELSE <<192 + (c \div 64), 128 + (c % 64)>>
         IN  b \o encode(Tail(s))

\* bytes.decode('utf-8', errors='ignore') on sequences over ChildBytes: a byte
\* below 0x80 is its character, and 0xFF, which starts no UTF-8 sequence, is
\* discarded
RECURSIVE decode(_)
decode(bs) ==
    IF bs = << >> THEN << >>
    ELSE IF Head(bs) < 128 THEN <<Chr(Head(bs))>> \o decode(Tail(bs))
    ELSE decode(Tail(bs))

isspace(c) == c \in {" ", "\n", "\t"}

RECURSIVE lstrip(_)
lstrip(s) ==
    IF s # << >> /\ isspace(Head(s)) THEN lstrip(Tail(s)) ELSE s

RECURSIVE rstrip(_)
rstrip(s) ==
    IF s # << >> /\ isspace(s[Len(s)]) THEN rstrip(SubSeq(s, 1, Len(s) - 1)) ELSE s

\* str.strip()
strip(s) == rstrip(lstrip(s))

\* str(n) for n >= 0
Digit(d) == CASE d = 0 -> "0" [] d = 1 -> "1" [] d = 2 -> "2" [] d = 3 -> "3"
              [] d = 4 -> "4" [] d = 5 -> "5" [] d = 6 -> "6" [] d = 7 -> "7"
              [] d = 8 -> "8" [] d = 9 -> "9"

RECURSIVE str_int(_)
str_int(n) == IF n < 10 THEN <<Digit(n)>> ELSE str_int(n \div 10) \o <<Digit(n % 10)>>

\* t occurs in s as a contiguous piece
Contains(s, t) ==
    \E i \in 1..(Len(s) - Len(t) + 1) : SubSeq(s, i, i + Len(t) - 1) = t

StartsWith(s, t) == Len(s) >= Len(t) /\ SubSeq(s, 1, Len(t)) = t

-----------------------------------------------------------------------------
(* Values of the arguments *)

Cmds == {<<"ls f">>}
InputStrs == {None, Some(<<"e'">>)}
FromDirs == {None, Some(<<"/d">>)}
Cwds == {<<"/cwd">>}
StdFds == {"PIPE", "None"}
ExcTypes == {"SystemExit", "RuntimeError"}
ExitCodes == {0, 1, 2}
ErrorMsgs == {<<"m1">>, <<"m2">>, << >>}
ErrorPrefixes == {<<"ERROR:">>, <<"WARN:">>}
PyVersions == {<<3, 10>>}
Majors == {2, 3, 4}
Minors == {0, 9, 10, 11}

NoArgs == [fn |-> "none"]
NoChild == [state |-> "none"]
NoRet == [stat |-> 0, output |-> None, errput |-> None]
NoResult == [kind |-> "none", exc |-> "", msg |-> << >>, value |-> None]

Raised(exc_type, msg) == [kind |-> "raise", exc |-> exc_type, msg |-> msg, value |-> None]
Returned(value) == [kind |-> "return", exc |-> "", msg |-> << >>, value |-> value]

\* Python's truth value of an optional text: None and "" are false
Truthy(o) == ~IsNone(o) /\ Get(o) # << >>

-----------------------------------------------------------------------------
(* expect *)

expect_always_exits(condition, error_msg, exc_type, error_prefix) ==
    IF ~condition
    THEN Raised("SystemExit", error_prefix \o <<" ">> \o error_msg)
    ELSE NoResult

\* the outcome of expect(condition, error_msg, exc_type, error_prefix):
\* NoResult when it falls through
expect(condition, error_msg, exc_type, error_prefix) ==
    IF ~condition
    THEN Raised(exc_type, error_prefix \o <<" ">> \o error_msg)
    ELSE NoResult

-----------------------------------------------------------------------------
(* run_cmd *)

WorkDir_always_cwd(from_dir, dir) == dir

\* os.getcwd() if from_dir is None else from_dir
WorkDir(from_dir, dir) == IF IsNone(from_dir) THEN dir ELSE Get(from_dir)

\* "RUN: {}\nFROM: {}".format(cmd, ...)
TraceLine(cmd, from_dir, dir) ==
    <<"RUN: ">> \o cmd \o <<"\nFROM: ">> \o WorkDir(from_dir, dir)

ErrFd_ignore_combine(a) == a.arg_stderr

\* arg_stderr = subprocess.STDOUT if combine_output else arg_stderr
ErrFd(a) == IF a.combine_output THEN "STDOUT" ELSE a.arg_stderr

\* where a byte written on a stream of the child lands
Target(c, stream) ==
    IF stream = "stdout" \/ c.err_fd = "STDOUT"
    THEN (IF c.out_fd = "PIPE" THEN "pipe_out" ELSE "inherited")
    ELSE (IF c.err_fd = "PIPE" THEN "pipe_err" ELSE "inherited")

\* lines 60-71: decode and strip a captured stream, None stays None
Captured(fd, bytes) ==
    IF fd = "PIPE" THEN Some(strip(decode(bytes))) ELSE None

DryRunRet_none == [stat |-> 0, output |-> None, errput |-> None]

\* lines 42-43: what a dry run returns
DryRunRet == [stat |-> 0, output |-> Some(<< >>), errput |-> Some(<< >>)]

RunCmdRet_bool_stat(c) ==
    [stat   |-> IF c.code = 0 THEN 0 ELSE 1,
     output |-> Captured(c.out_fd, c.pipe_out),
     errput |-> Captured(c.err_fd, c.pipe_err)]

\* line 59 to 75: communicate() hands back the captured streams, or None for a
\* stream that is no pipe; wait() hands back the child's exit status
RunCmdRet(c) ==
    [stat   |-> c.code,
     output |-> Captured(c.out_fd, c.pipe_out),
     errput |-> Captured(c.err_fd, c.pipe_err)]

-----------------------------------------------------------------------------
(* run_cmd_no_fail *)

ErrorText_stderr_only(r) == IF IsNone(r.errput) THEN << >> ELSE Get(r.errput)

\* line 102-104: the error text of the failure message
ErrorText(r) ==
    LET e == IF ~Truthy(r.errput) THEN r.output ELSE r.errput
    IN  IF IsNone(e) THEN << >> ELSE Get(e)

\* line 106: "Command: '{}' failed with error '{}' from dir '{}'".format(...)
FailMsg(cmd, errput, dir) ==
    <<"Command: '">> \o cmd \o <<"' failed with error '">> \o errput
        \o <<"' from dir '">> \o dir \o <<"'">>

NoFailOutcome_fail_on_stderr(a, r, dir) ==
    IF r.stat # 0 \/ Truthy(r.errput)
    THEN expect(FALSE,
                FailMsg(a.cmd, ErrorText(r), WorkDir(a.from_dir, dir)),
                a.exc_type, <<"ERROR:">>)
    ELSE Returned(r.output)

NoFailOutcome_default_exc(a, r, dir) ==
    IF r.stat # 0
    THEN expect(FALSE,
                FailMsg(a.cmd, ErrorText(r), WorkDir(a.from_dir, dir)),
                "SystemExit", <<"ERROR:">>)
    ELSE Returned(r.output)

\* lines 99-108, given what run_cmd returned
NoFailOutcome(a, r, dir) ==
    LET chk == IF r.stat # 0
               THEN expect(FALSE,
                           FailMsg(a.cmd, ErrorText(r), WorkDir(a.from_dir, dir)),
                           a.exc_type, <<"ERROR:">>)
               ELSE NoResult
    IN  IF chk.kind = "raise" THEN chk ELSE Returned(r.output)

\* what the caller of the current call gets once run_cmd has returned r
Outcome(a, r, dir) ==
    IF a.fn = "run_cmd_no_fail" THEN NoFailOutcome(a, r, dir) ELSE Returned(None)

-----------------------------------------------------------------------------
(* check_minimum_python_version *)

\* line 119
VersionMsg(major, minor, v) ==
    <<"Python ">> \o str_int(major) \o <<", minor version ">> \o str_int(minor)
        \o <<" is required, you have ">> \o str_int(v[1]) \o <<".">> \o str_int(v[2])

VersionOk_strict_minor(major, minor, v) ==
    v[1] > major \/ (v[1] = major /\ v[2] > minor)

\* line 120-121
VersionOk(major, minor, v) ==
    v[1] > major \/ (v[1] = major /\ v[2] >= minor)

check_minimum_python_version(major, minor, v) ==
    expect(VersionOk(major, minor, v), VersionMsg(major, minor, v),
           "SystemExit", <<"ERROR:">>)

-----------------------------------------------------------------------------
(* The caller and the child process *)

RunArgs ==
    [fn : {"run_cmd"}, cmd : Cmds, input_str : InputStrs, from_dir : FromDirs,
     verbose : BOOLEAN, dry_run : BOOLEAN, arg_stdout : StdFds, arg_stderr : StdFds,
     combine_output : BOOLEAN, exc_type : {"SystemExit"}]
    \cup
    [fn : {"run_cmd_no_fail"}, cmd : Cmds, input_str : InputStrs, from_dir : FromDirs,
     verbose : BOOLEAN, dry_run : BOOLEAN, arg_stdout : StdFds, arg_stderr : StdFds,
     combine_output : BOOLEAN, exc_type : ExcTypes]

Init ==
    /\ pc = "idle"
    /\ args = NoArgs
    /\ stdin = "none"
    /\ child = NoChild
    /\ ret = NoRet
    /\ result = NoResult
    /\ printed = << >>
    /\ spawned = 0
    /\ cwd \in Cwds
    /\ version_info \in PyVersions

\* run_cmd, lines 36-49, entered directly or through run_cmd_no_fail (line 97):
\* the trace line, then the dry run's early return
Call(a) ==
    /\ pc = "idle"
    /\ args' = a
    /\ printed' = IF a.verbose
                  THEN <<TraceLine(a.cmd, a.from_dir, cwd)>>
                  ELSE << >>
    /\ IF a.dry_run
       THEN /\ ret' = DryRunRet
            /\ result' = Outcome(a, DryRunRet, cwd)
            /\ pc' = "done"
       ELSE /\ pc' = "popen"
            /\ UNCHANGED <<ret, result>>
    /\ UNCHANGED <<stdin, child, spawned, cwd, version_info>>

\* lines 51-57: subprocess.Popen creates the child and its pipes
Popen ==
    /\ pc = "popen"
    /\ child' = [state |-> "running", code |-> 0,
                 cmd |-> args.cmd,
                 cwd |-> WorkDir(args.from_dir, cwd),
                 out_fd |-> args.arg_stdout, err_fd |-> ErrFd(args),
                 received |-> None, wrote |-> << >>,
                 pipe_out |-> << >>, pipe_err |-> << >>, inherited |-> << >>]
    /\ spawned' = spawned + 1
    /\ stdin' = IF IsNone(args.input_str) THEN "none" ELSE "open"
    /\ pc' = "communicate"
    /\ UNCHANGED <<args, ret, result, printed, cwd, version_info>>

\* line 59, the first half of communicate(): the encoded input (line 47) is
\* written to the child's stdin and stdin is closed; a child that has exited
\* already gets nothing (the broken pipe is ignored)
WriteInput ==
    /\ pc = "communicate"
    /\ stdin = "open"
    /\ stdin' = "closed"
    /\ child' = IF child.state = "running"
                THEN [child EXCEPT !.received = Some(encode(Get(args.input_str)))]
                ELSE child
    /\ UNCHANGED <<pc, args, ret, result, printed, spawned, cwd, version_info>>

\* the child writes one byte on one of its streams
ChildWrite(stream, b) ==
    /\ child.state = "running"
    /\ Len(child.wrote) < MaxWrites
    /\ LET t == Target(child, stream)
       IN  child' = [child EXCEPT
                       !.wrote = Append(@, <<stream, b>>),
                       !.pipe_out = IF t = "pipe_out" THEN Append(@, b) ELSE @,
                       !.pipe_err = IF t = "pipe_err" THEN Append(@, b) ELSE @,
                       !.inherited = IF t = "inherited" THEN Append(@, b) ELSE @]
    /\ UNCHANGED <<pc, args, stdin, ret, result, printed, spawned, cwd, version_info>>

\* the child exits, at any moment of its life
ChildExit(code) ==
    /\ child.state = "running"
    /\ child' = [child EXCEPT !.state = "exited", !.code = code]
    /\ UNCHANGED <<pc, args, stdin, ret, result, printed, spawned, cwd, version_info>>

\* communicate() returns once the input is written and the child has exited
CommunicateDone_no_wait == pc = "communicate" /\ stdin # "open"

CommunicateDone ==
    /\ pc = "communicate"
    /\ stdin # "open"
    /\ child.state = "exited"

\* lines 59-75, and lines 99-108 for run_cmd_no_fail
Finish ==
    /\ CommunicateDone
    /\ ret' = RunCmdRet(child)
    /\ result' = Outcome(args, RunCmdRet(child), cwd)
    /\ pc' = "done"
    /\ UNCHANGED <<args, stdin, child, printed, spawned, cwd, version_info>>

\* a direct call of expect
CallExpect(condition, error_msg, exc_type, error_prefix) ==
    /\ pc = "idle"
    /\ args' = [fn |-> "expect", condition |-> condition, error_msg |-> error_msg,
                exc_type |-> exc_type, error_prefix |-> error_prefix]
    /\ result' = LET r == expect(condition, error_msg, exc_type, error_prefix)
                 IN  IF r.kind = "raise" THEN r ELSE Returned(None)
    /\ pc' = "done"
    /\ UNCHANGED <<stdin, child, ret, printed, spawned, cwd, version_info>>

\* a call of check_minimum_python_version
CallCheckVersion(major, minor) ==
    /\ pc = "idle"
    /\ args' = [fn |-> "check_minimum_python_version", major |-> major, minor |-> minor]
    /\ result' = LET r == check_minimum_python_version(major, minor, version_info)
                 IN  IF r.kind = "raise" THEN r ELSE Returned(None)
    /\ pc' = "done"
    /\ UNCHANGED <<stdin, child, ret, printed, spawned, cwd, version_info>>

\* the caller goes on to its next call
NextCall ==
    /\ pc = "done"
    /\ pc' = "idle"
    /\ args' = NoArgs
    /\ stdin' = "none"
    /\ child' = NoChild
    /\ ret' = NoRet
    /\ result' = NoResult
    /\ printed' = << >>
    /\ spawned' = 0
    /\ UNCHANGED <<cwd, version_info>>

Next ==
    \/ \E a \in RunArgs : Call(a)
    \/ Popen
    \/ WriteInput
    \/ \E stream \in {"stdout", "stderr"}, b \in ChildBytes : ChildWrite(stream, b)
    \/ \E code \in ExitCodes : ChildExit(code)
    \/ Finish
    \/ \E c \in BOOLEAN, m \in ErrorMsgs, e \in ExcTypes, p \in ErrorPrefixes :
          CallExpect(c, m, e, p)
    \/ \E major \in Majors, minor \in Minors : CallCheckVersion(major, minor)
    \/ NextCall

Spec == Init /\ [][Next]_vars

-----------------------------------------------------------------------------
(* Vocabulary of the properties *)

IsRunCall == args.fn \in {"run_cmd", "run_cmd_no_fail"}

\* the current call ran a child and has come back from run_cmd
RanChild == pc = "done" /\ IsRunCall /\ ~args.dry_run

\* the current call is a dry run that has come back
DryRan == pc = "done" /\ IsRunCall /\ args.dry_run

IsAscii(b) == b < 128

\* the text of the bytes bs with the undecodable bytes left out
DecodedText(bs) ==
    LET sel == SelectSeq(bs, IsAscii)
    IN  [i \in 1..Len(sel) |-> Chr(sel[i])]

AllSpace(s) == \A i \in 1..Len(s) : s[i] \in {" ", "\n", "\t"}

\* t is s without its leading and trailing whitespace
IsTrimOf(t, s) ==
    \E i \in 0..Len(s), j \in 0..Len(s) :
        /\ i + j <= Len(s)
        /\ t = SubSeq(s, i + 1, Len(s) - j)
        /\ AllSpace(SubSeq(s, 1, i))
        /\ AllSpace(SubSeq(s, Len(s) - j + 1, Len(s)))
        /\ (t = << >> \/ (~AllSpace(<<t[1]>>) /\ ~AllSpace(<<t[Len(t)]>>)))

\* the working directory in effect for the current call
DirInEffect == IF IsNone(args.from_dir) THEN cwd ELSE Get(args.from_dir)

NonEmpty(o) == ~IsNone(o) /\ Len(Get(o)) > 0

-----------------------------------------------------------------------------
(* Properties *)

\* C1: run_cmd never raises because of the child's exit status: whether the
\* child exits 0 or not, the call returns, and the first element of what it
\* returns is exactly the exit code of the child.
C1_ExitStatusIsReturned ==
    (RanChild /\ args.fn = "run_cmd") =>
        /\ result.kind = "return"
        /\ ret.stat = child.code

C1_Witness ==
    /\ RanChild
    /\ args.fn = "run_cmd"
    /\ child.code = 2
    /\ ret.stat = 2
    /\ result.kind = "return"

\* C2: when the command exits non-zero, run_cmd_no_fail does not return: it
\* fails, and the message of the failure contains the command string and the
\* working directory in effect (from_dir when given, else the caller's
\* current directory).
C2_FailureNamesCommandAndDir ==
    (RanChild /\ args.fn = "run_cmd_no_fail" /\ child.code # 0) =>
        /\ result.kind = "raise"
        /\ Contains(result.msg, args.cmd)
        /\ Contains(result.msg, DirInEffect)

C2_Witness ==
    /\ RanChild
    /\ args.fn = "run_cmd_no_fail"
    /\ child.code # 0
    /\ ~IsNone(args.from_dir)
    /\ result.kind = "raise"
    /\ Contains(result.msg, Get(args.from_dir))

\* C3: when the command exits 0, run_cmd_no_fail returns exactly the second
\* element of run_cmd's result, the captured standard output decoded and
\* without leading and trailing whitespace (None when stdout is not
\* captured); nothing is raised, whatever stderr holds.
C3_SuccessReturnsOutput ==
    (RanChild /\ args.fn = "run_cmd_no_fail" /\ child.code = 0) =>
        /\ result.kind = "return"
        /\ result.value = ret.output
        /\ IF args.arg_stdout = "PIPE"
           THEN /\ ~IsNone(result.value)
                /\ IsTrimOf(Get(result.value), DecodedText(child.pipe_out))
           ELSE IsNone(result.value)

C3_Witness ==
    /\ RanChild
    /\ args.fn = "run_cmd_no_fail"
    /\ child.code = 0
    /\ child.pipe_out = <<32, 97>>
    /\ result.kind = "return"
    /\ result.value = Some(<<"a">>)

\* the line a verbose call prints
ExpectedTrace == <<"RUN: ">> \o args.cmd \o <<"\nFROM: ">> \o DirInEffect

\* C4 as claimed: a dry run returns status 0 with empty output and empty
\* error, spawns no process and has no observable effect at all, whatever the
\* other arguments are (verbose among them).
C4_Original ==
    (IsRunCall /\ args.dry_run) =>
        /\ pc = "done"
        /\ ret.stat = 0 /\ ret.output = Some(<< >>) /\ ret.errput = Some(<< >>)
        /\ spawned = 0 /\ child.state = "none" /\ stdin = "none"
        /\ printed = << >>

\* C4, amended: a dry run returns status 0 with empty output and empty error
\* and spawns no process, whatever the other arguments are; its one observable
\* effect is the trace line, printed exactly when verbose is set.
C4_DryRun ==
    (IsRunCall /\ args.dry_run) =>
        /\ pc = "done"
        /\ ret.stat = 0 /\ ret.output = Some(<< >>) /\ ret.errput = Some(<< >>)
        /\ spawned = 0 /\ child.state = "none" /\ stdin = "none"
        /\ printed = IF args.verbose = TRUE THEN <<ExpectedTrace>> ELSE << >>

C4_Witness ==
    /\ DryRan
    /\ args.verbose
    /\ ~IsNone(args.input_str)
    /\ args.combine_output
    /\ printed # << >>
    /\ ret.stat = 0

\* the error text a failure of run_cmd_no_fail is to carry
ExpectedErrorText ==
    IF NonEmpty(ret.errput) THEN Get(ret.errput)
    ELSE IF NonEmpty(ret.output) THEN Get(ret.output)
    ELSE << >>

\* C5: when run_cmd_no_fail fails on a non-zero exit, the error text in the
\* failure message is the captured stderr if it is non-empty, else the
\* captured stdout, else the empty string, for every combination of stdout
\* and stderr being non-empty, empty or None.
C5_ErrorTextFallback ==
    (RanChild /\ args.fn = "run_cmd_no_fail" /\ result.kind = "raise") =>
        result.msg = <<"ERROR:", " ", "Command: '">> \o args.cmd
                        \o <<"' failed with error '">> \o ExpectedErrorText
                        \o <<"' from dir '">> \o DirInEffect \o <<"'">>

C5_Witness ==
    /\ RanChild
    /\ args.fn = "run_cmd_no_fail"
    /\ result.kind = "raise"
    /\ IsNone(ret.errput)
    /\ NonEmpty(ret.output)
    /\ Contains(result.msg, <<"' failed with error '">> \o Get(ret.output))

\* C6 as claimed: expect does nothing when the condition holds; otherwise it
\* raises the failure kind of the call (SystemExit unless the caller gives
\* one) and the message is the prefix "ERROR:" concatenated with the supplied
\* message.
C6_Original ==
    (pc = "done" /\ args.fn = "expect" /\ args.error_prefix = <<"ERROR:">>) =>
        IF args.condition
        THEN result = Returned(None) /\ printed = << >> /\ spawned = 0
        ELSE /\ result.kind = "raise"
             /\ result.exc = args.exc_type
             /\ result.msg = <<"ERROR:">> \o args.error_msg

\* C6, amended: expect does nothing when the condition holds; otherwise it
\* raises the failure kind of the call (SystemExit unless the caller gives
\* one) and the message is the prefix "ERROR:", one space, and the supplied
\* message.
C6_Expect ==
    (pc = "done" /\ args.fn = "expect" /\ args.error_prefix = <<"ERROR:">>) =>
        IF args.condition
        THEN result = Returned(None) /\ printed = << >> /\ spawned = 0
        ELSE /\ result.kind = "raise"
             /\ result.exc = args.exc_type
             /\ result.msg = <<"ERROR:", " ">> \o args.error_msg

C6_Witness ==
    /\ pc = "done"
    /\ args.fn = "expect"
    /\ args.error_prefix = <<"ERROR:">>
    /\ ~args.condition
    /\ args.exc_type = "RuntimeError"
    /\ result.kind = "raise"
    /\ result.msg = <<"ERROR:", " ", "m1">>

\* every byte the child wrote, on either stream, in the order written
AllWritten == [i \in 1..Len(child.wrote) |-> child.wrote[i][2]]

C8_VersionCheck ==
    (pc = "done" /\ args.fn = "check_minimum_python_version") =>
        IF \/ version_info[1] > args.major
           \/ (version_info[1] = args.major /\ version_info[2] >= args.minor)
        THEN result = Returned(None) /\ printed = << >> /\ spawned = 0
        ELSE /\ result.kind = "raise"
             /\ StartsWith(result.msg, <<"ERROR:">>)
             /\ Contains(result.msg, <<"Python ">> \o str_int(args.major)
                                      \o <<", minor version ">> \o str_int(args.minor))
             /\ Contains(result.msg, <<" is required, you have ">>
                                      \o str_int(version_info[1])
                                      \o <<".">> \o str_int(version_info[2]))

C8_Witness ==
    /\ pc = "done"
    /\ args.fn = "check_minimum_python_version"
    /\ args.major = version_info[1]
    /\ args.minor = version_info[2]
    /\ result = Returned(None)

\* C9 as claimed: a call that is no dry run spawns exactly one child, and the
\* events come in the order spawn, input written and stdin closed, child
\* exits, call returns; the call does not return while the child runs.
C9_Original ==
    /\ spawned <= 1
    /\ RanChild => (spawned = 1 /\ child.state = "exited")
    /\ stdin # "none" => child.state # "none"
    /\ (pc = "done" /\ IsRunCall /\ ~IsNone(args.input_str) /\ ~args.dry_run)
          => stdin = "closed"
    /\ (child.state = "exited" /\ ~IsNone(args.input_str)) => stdin = "closed"

\* C9, amended: a call that is no dry run spawns exactly one child; the caller
\* spawns it, then writes the input (if any) and closes stdin, then waits for
\* the child's exit, and only then returns, so it never returns while the
\* child runs and never returns if the child never exits.  The child's exit
\* itself may come before the input is written.
C9_CallOrder ==
    /\ spawned <= 1
    /\ pc \in {"idle", "popen"} => (spawned = 0 /\ child.state = "none")
    /\ pc = "communicate" => (spawned = 1 /\ child.state # "none")
    /\ RanChild => (spawned = 1 /\ child.state = "exited")
    /\ stdin # "none" => child.state # "none"
    /\ (pc = "done" /\ IsRunCall /\ ~IsNone(args.input_str) /\ ~args.dry_run)
          => stdin = "closed"

C9_Witness ==
    /\ RanChild
    /\ ~IsNone(args.input_str)
    /\ stdin = "closed"
    /\ IsNone(child.received)
    /\ spawned = 1

\* C10: the failure of run_cmd_no_fail on a non-zero exit is raised the way
\* expect raises: it is of the failure kind of the call (exc_type, SystemExit
\* by default) and its message begins with "ERROR:"; when the command exits 0
\* the failure kind has no part in the result.
C10_FailureKind ==
    (pc = "done" /\ args.fn = "run_cmd_no_fail") =>
        IF ~args.dry_run /\ child.code # 0
        THEN /\ result.kind = "raise"
             /\ result.exc = args.exc_type
             /\ StartsWith(result.msg, <<"ERROR:">>)
             /\ IsNone(result.value)
        ELSE /\ result.kind = "return"
             /\ result.exc = ""
             /\ result.msg = << >>

C10_Witness ==
    /\ RanChild
    /\ args.fn = "run_cmd_no_fail"
    /\ args.exc_type = "RuntimeError"
    /\ child.code = 1
    /\ result.kind = "raise"
    /\ result.exc = "RuntimeError"

====
